---- MODULE Spec2Model ----
(***************************************************************************)
(* Subject identifiers (subjectid-rs): the E.164 phone number value type   *)
(* of e164.rs, the atomic identifier unions Atomic (single.rs) and Id      *)
(* (lib.rs) with their serde wire form, and the composite SubjectId.       *)
(*                                                                         *)
(* A string is a sequence of characters, a character a one-symbol token.   *)
(* An optional value is a sequence of length 0 or 1.  A Result is a record *)
(* with ok = TRUE and the value v, or ok = FALSE and the error err.        *)
(***************************************************************************)
EXTENDS Integers, Sequences, FiniteSets, TLC

VARIABLES
    phIn,       \* the string handed to PhoneNumber::from_str
    phWire,     \* the wire value handed to PhoneNumber::deserialize
    phOut,      \* Option<Result>: from_str(phIn)
    phSib,      \* Option<Result>: from_str of phIn with its leading '+' toggled
    phText,     \* Option<String>: to_string of the parsed number
    phRe,       \* Option<Result>: from_str(phText)
    phDe,       \* Option<Result>: deserialize(phWire)
    phClone,    \* Option<PhoneNumber>: clone of the parsed number
    phSer,      \* Option<wire value>: serialize of the parsed number
    aTy,        \* the union in use: "Atomic" (single.rs) or "Id" (lib.rs)
    aWire,      \* Option<object>: a wire object received from outside
    aVal,       \* Option<value>: a value constructed by the caller
    aDec,       \* Option<Result>: deserialize of aWire, or of aEnc
    aEnc,       \* Option<object>: serialize of aVal, or of the decoded value
    aFmt,       \* Option<String>: the last format() result
    aFmtPrev,   \* Option<String>: the format() result before the last
    sWire,      \* the wire object handed to the SubjectId decoder
    sDec,       \* Option<Result>: the SubjectId decoded from sWire
    sFmt        \* Option<String>: format() of the decoded SubjectId

phVars == <<phIn, phWire, phOut, phSib, phText, phRe, phDe, phClone, phSer>>

aVars == <<aTy, aWire, aVal, aDec, aEnc, aFmt, aFmtPrev>>

sVars == <<sWire, sDec, sFmt>>

vars == <<phVars, aVars, sVars>>

(***************************************************************************)
(* Generic helpers                                                         *)
(***************************************************************************)
None == <<>>
Some(x) == <<x>>
Ok(x) == [ok |-> TRUE, v |-> x]
Err(e) == [ok |-> FALSE, err |-> e]

\* wire (JSON) values
JStr(s) == [k |-> "str", s |-> s]
JNull == [k |-> "null"]
JNum(n) == [k |-> "num", n |-> n]
JArr(a) == [k |-> "arr", a |-> a]
JObj(o) == [k |-> "obj", o |-> o]

\* all strings over alphabet A of length at most n
Strs(A, n) == UNION {[1..k -> A] : k \in 0..n}

\* the string made of n copies of character c
Run(c, n) == [i \in 1..n |-> c]

(***************************************************************************)
(* e164.rs: PhoneNumber                                                    *)
(***************************************************************************)
\* ASCII decimal digits of the model's alphabet
AsciiDigits == {"0", "7"}

\* decimal digits outside ASCII (Unicode general category Nd), here
\* U+0663 ARABIC-INDIC DIGIT THREE
UnicodeNd == {"U+0663"}

\* the class \d of the regex crate: Unicode-aware, \p{Nd}
Perl_d(c) == c \in AsciiDigits \cup UnicodeNd

\* the repetition bounds of \d{1,15}
MinDigits == 1
MaxDigits == 15

\* captures(s) for the pattern without its closing `$`: the digits need not
\* reach the end of the text; group 1 is the longest run of 1 to 15 digits
RE_PHONE_captures_unanchored(s) ==
    LET n == Len(s)
        starts == IF n >= 1 /\ s[1] = "+" THEN <<2, 1>> ELSE <<1>>
        RunLen(i) == CHOOSE k \in 0..MaxDigits :
                        /\ i + k - 1 <= n
                        /\ \A j \in i..(i + k - 1) : Perl_d(s[j])
                        /\ (k = MaxDigits \/ i + k > n \/ ~Perl_d(s[i + k]))
        DigitsAt(i) == RunLen(i) >= MinDigits
        found == SelectSeq(starts, DigitsAt)
    IN  IF found = <<>>
        THEN None
        ELSE Some(SubSeq(s, Head(found), Head(found) + RunLen(Head(found)) - 1))

\* RE_PHONE.captures(s) for ^\+?(\d{1,15})$ : None when the text does not
\* match, else the text of capture group 1.  `\+?` is greedy (the '+' is
\* taken first when present); `$` is the end of the text, not a line end.
RE_PHONE_captures(s) ==
    LET n == Len(s)
        starts == IF n >= 1 /\ s[1] = "+" THEN <<2, 1>> ELSE <<1>>
        DigitsToEnd(i) == /\ n - i + 1 >= MinDigits
                          /\ n - i + 1 <= MaxDigits
                          /\ \A j \in i..n : Perl_d(s[j])
        found == SelectSeq(starts, DigitsToEnd)
    IN  IF found = <<>> THEN None ELSE Some(SubSeq(s, Head(found), n))

\* Error::InvalidPhoneNumber and its Display text
InvalidPhoneNumber == "InvalidPhoneNumber"
ErrorDisplay(e) == IF e = InvalidPhoneNumber
                   THEN "invalid E.164 formatted phone number" ELSE "?"

\* parse storing the text as given instead of "+" and group 1
parse_whole(s) ==
    LET caps == RE_PHONE_captures(s)
    IN  IF caps = None
        THEN Err(InvalidPhoneNumber)
        ELSE Ok([number |-> s])

\* PhoneNumber::parse
parse(s) ==
    LET caps == RE_PHONE_captures(s)
    IN  IF caps = None
        THEN Err(InvalidPhoneNumber)
        ELSE Ok([number |-> <<"+">> \o caps[1]])

\* <PhoneNumber as FromStr>::from_str
from_str(s) == parse(s)

\* <PhoneNumber as Display>::fmt, through to_string
to_string(p) == p.number

\* #[derive(Clone)]
clone(p) == [number |-> p.number]

\* #[derive(Serialize)] #[serde(transparent)]: the inner string itself
PhoneNumber_serialize(p) == JStr(p.number)

\* PhVisitor::visit_str: parse, the error wrapped by de::Error::custom
visit_str(s) ==
    LET r == parse(s)
    IN  IF r.ok THEN r ELSE Err([kind |-> "custom", msg |-> ErrorDisplay(r.err)])

\* <PhoneNumber as Deserialize>::deserialize: deserialize_string(PhVisitor);
\* the visitor takes strings only, any other wire value is an invalid type
PhoneNumber_deserialize(w) ==
    IF w.k = "str"
    THEN visit_str(w.s)
    ELSE Err([kind |-> "invalid_type", msg |-> "an E.164 formatted phone number"])

(***************************************************************************)
(* Inputs of the phone number operations                                   *)
(***************************************************************************)
MaxShort == 2

PhoneAlphabet == {"+", "7", "U+0663", "a", " ", "\n"}

\* every short string, and digit runs around the 15 digit limit with and
\* without a leading '+' and a trailing character
PhoneInputs ==
    Strs(PhoneAlphabet, MaxShort)
    \cup {pre \o Run(d, n) \o suf :
            pre \in {<<>>, <<"+">>},
            d \in {"7", "U+0663"},
            n \in {MaxDigits - 1, MaxDigits, MaxDigits + 1},
            suf \in {<<>>, <<"\n">>, <<"0">>}}

PhoneWires(s) == {JStr(s), JNull, JNum(7)}

\* s with its leading '+' removed, or added when it has none
Sibling(s) == IF Len(s) >= 1 /\ s[1] = "+" THEN Tail(s) ELSE <<"+">> \o s

PhoneIdle ==
    /\ phIn = <<>>
    /\ phWire = JNull
    /\ phOut = None
    /\ phSib = None
    /\ phText = None
    /\ phRe = None
    /\ phDe = None
    /\ phClone = None
    /\ phSer = None

PhoneInit ==
    /\ phIn \in PhoneInputs
    /\ phWire \in PhoneWires(phIn)
    /\ phOut = None
    /\ phSib = None
    /\ phText = None
    /\ phRe = None
    /\ phDe = None
    /\ phClone = None
    /\ phSer = None

FromStr ==
    /\ phOut = None
    /\ phOut' = Some(from_str(phIn))
    /\ UNCHANGED <<phIn, phWire, phSib, phText, phRe, phDe, phClone, phSer, aVars, sVars>>

FromStrSibling ==
    /\ phSib = None
    /\ phSib' = Some(from_str(Sibling(phIn)))
    /\ UNCHANGED <<phIn, phWire, phOut, phText, phRe, phDe, phClone, phSer, aVars, sVars>>

DisplayFmt ==
    /\ phOut # None /\ phOut[1].ok
    /\ phText = None
    /\ phText' = Some(to_string(phOut[1].v))
    /\ UNCHANGED <<phIn, phWire, phOut, phSib, phRe, phDe, phClone, phSer, aVars, sVars>>

Reparse ==
    /\ phText # None
    /\ phRe = None
    /\ phRe' = Some(from_str(phText[1]))
    /\ UNCHANGED <<phIn, phWire, phOut, phSib, phText, phDe, phClone, phSer, aVars, sVars>>

Deserialize ==
    /\ phDe = None
    /\ phDe' = Some(PhoneNumber_deserialize(phWire))
    /\ UNCHANGED <<phIn, phWire, phOut, phSib, phText, phRe, phClone, phSer, aVars, sVars>>

Clone ==
    /\ phOut # None /\ phOut[1].ok
    /\ phClone = None
    /\ phClone' = Some(clone(phOut[1].v))
    /\ UNCHANGED <<phIn, phWire, phOut, phSib, phText, phRe, phDe, phSer, aVars, sVars>>

Serialize ==
    /\ phOut # None /\ phOut[1].ok
    /\ phSer = None
    /\ phSer' = Some(PhoneNumber_serialize(phOut[1].v))
    /\ UNCHANGED <<phIn, phWire, phOut, phSib, phText, phRe, phDe, phClone, aVars, sVars>>

PhoneNext ==
    \/ FromStr
    \/ FromStrSibling
    \/ DisplayFmt
    \/ Reparse
    \/ Deserialize
    \/ Clone
    \/ Serialize

(***************************************************************************)
(* lib.rs, single.rs: the atomic identifier unions Id and Atomic           *)
(***************************************************************************)
\* Id::FORMAT_ACCOUNT .. Id::FORMAT_URI
FORMAT_ACCOUNT == <<"a", "c", "c", "o", "u", "n", "t">>
FORMAT_EMAIL == <<"e", "m", "a", "i", "l">>
FORMAT_ISSUER_SUBJECT == <<"i", "s", "s", "_", "s", "u", "b">>
FORMAT_OPAQUE == <<"o", "p", "a", "q", "u", "e">>
FORMAT_PHONE_NUMBER == <<"p", "h", "o", "n", "e", "_", "n", "u", "m", "b", "e", "r">>
FORMAT_DID == <<"d", "i", "d">>
FORMAT_URI == <<"u", "r", "i">>

\* SubjectId::FORMAT_*: the constants Atomic::format returns.  SubjectId is
\* not part of the sources at hand; the values are the registry names of
\* the specification's format table.
SubjectId_FORMAT_ACCOUNT == <<"a", "c", "c", "o", "u", "n", "t">>
SubjectId_FORMAT_EMAIL == <<"e", "m", "a", "i", "l">>
SubjectId_FORMAT_ISSUER_SUBJECT == <<"i", "s", "s", "_", "s", "u", "b">>
SubjectId_FORMAT_OPAQUE == <<"o", "p", "a", "q", "u", "e">>
SubjectId_FORMAT_PHONE_NUMBER == <<"p", "h", "o", "n", "e", "_", "n", "u", "m", "b", "e", "r">>
SubjectId_FORMAT_DID == <<"d", "i", "d">>
SubjectId_FORMAT_URI == <<"u", "r", "i">>
SubjectId_FORMAT_ALIASES == <<"a", "l", "i", "a", "s", "e", "s">>

\* the variant identifiers of the two enums
Account == <<"A", "c", "c", "o", "u", "n", "t">>
Email == <<"E", "m", "a", "i", "l">>
IssuerSubject == <<"I", "s", "s", "u", "e", "r", "S", "u", "b", "j", "e", "c", "t">>
Opaque == <<"O", "p", "a", "q", "u", "e">>
PhoneNumber == <<"P", "h", "o", "n", "e", "N", "u", "m", "b", "e", "r">>
Did == <<"D", "i", "d">>
Uri == <<"U", "r", "i">>
DID == <<"D", "I", "D">>
URI == <<"U", "R", "I">>

\* a variant: its identifier, its #[serde(rename = ..)] if any, and its
\* fields in declaration order
Variant(ident, rename, fields) ==
    [ident |-> ident, rename |-> rename, fields |-> fields]

\* enum Atomic (single.rs)
Atomic_variants ==
    << Variant(Account, None, <<"uri">>),
       Variant(Email, None, <<"email">>),
       Variant(IssuerSubject, Some(<<"i", "s", "s", "_", "s", "u", "b">>),
               <<"issuer", "subject">>),
       Variant(Opaque, None, <<"id">>),
       Variant(PhoneNumber, None, <<"phone_number">>),
       Variant(Did, None, <<"url">>),
       Variant(Uri, None, <<"uri">>) >>

\* enum Id (lib.rs)
Id_variants ==
    << Variant(Account, None, <<"uri">>),
       Variant(Email, None, <<"email">>),
       Variant(IssuerSubject, Some(<<"i", "s", "s", "_", "s", "u", "b">>),
               <<"issuer", "subject">>),
       Variant(Opaque, None, <<"id">>),
       Variant(PhoneNumber, None, <<"phone_number">>),
       Variant(DID, Some(<<"d", "i", "d">>), <<"url">>),
       Variant(URI, Some(<<"u", "r", "i">>), <<"uri">>) >>

Types == {"Atomic", "Id"}

Variants(ty) == IF ty = "Atomic" THEN Atomic_variants ELSE Id_variants

\* #[serde(tag = "format")]
TAG == "format"

\* the upper case letters of the identifiers, with their lower case
LowerOf ==
    [A |-> "a", D |-> "d", E |-> "e", I |-> "i", N |-> "n",
     O |-> "o", P |-> "p", R |-> "r", S |-> "s", U |-> "u"]

is_uppercase(c) == c \in DOMAIN LowerOf

to_ascii_lowercase(c) == IF c \in DOMAIN LowerOf THEN LowerOf[c] ELSE c

\* the enum without its rename_all attribute: the identifier as written
snake_case_missing(s) == s

\* #[serde(rename_all = "snake_case")] on a variant identifier: an
\* underscore before every upper case letter but the first character,
\* every letter lowered
RECURSIVE SnakeFrom(_, _)
SnakeFrom(s, i) ==
    IF i > Len(s)
    THEN <<>>
    ELSE (IF i > 1 /\ is_uppercase(s[i]) THEN <<"_">> ELSE <<>>)
         \o <<to_ascii_lowercase(s[i])>>
         \o SnakeFrom(s, i + 1)

snake_case(s) == SnakeFrom(s, 1)

\* WireName without the #[serde(rename = ..)] of the variant: the
\* rename_all rule alone
WireName_rule_only(var) == snake_case(var.ident)

\* the name a variant carries on the wire: its rename, else the rule
WireName(var) == IF var.rename # None THEN var.rename[1] ELSE snake_case(var.ident)

\* the set of a variant's field names
FieldSet(var) == {var.fields[i] : i \in 1..Len(var.fields)}

\* the variant of type ty with identifier ident
VariantOf(ty, ident) ==
    LET vs == Variants(ty)
    IN  vs[CHOOSE i \in 1..Len(vs) : vs[i].ident = ident]

\* a value of the union: the populated variant and its field strings
Value(ident, fields) == [variant |-> ident, fields |-> fields]

\* serialize as an adjacently tagged enum would write it: the fields
\* nested under a content member
serialize_adjacent(ty, v) ==
    LET var == VariantOf(ty, v.variant)
    IN  (TAG :> JStr(WireName(var)))
        @@ ("content" :> JObj([f \in FieldSet(var) |-> JStr(v.fields[f])]))

\* derive(Serialize) of an internally tagged enum: one flat map, the tag
\* entry and then the variant's fields
serialize(ty, v) ==
    LET var == VariantOf(ty, v.variant)
    IN  (TAG :> JStr(WireName(var)))
        @@ [f \in FieldSet(var) |-> JStr(v.fields[f])]

\* visit_struct with #[serde(default)] fields: a missing field is ""
visit_struct_defaulted(var, o) ==
    LET present == FieldSet(var) \cap DOMAIN o
    IN  IF \E f \in present : o[f].k # "str"
        THEN Err("invalid_type")
        ELSE Ok(Value(var.ident,
                      [f \in FieldSet(var) |-> IF f \in present THEN o[f].s ELSE <<>>]))

\* visit_struct with the values of a two-field variant stored crosswise
visit_struct_swapped(var, o) ==
    LET present == FieldSet(var) \cap DOMAIN o
        other(f) == IF Len(var.fields) = 2
                    THEN CHOOSE g \in FieldSet(var) : g # f
                    ELSE f
    IN  IF \E f \in present : o[f].k # "str"
        THEN Err("invalid_type")
        ELSE IF present # FieldSet(var)
        THEN Err("missing_field")
        ELSE Ok(Value(var.ident, [f \in FieldSet(var) |-> o[other(f)].s]))

\* visit_struct with the phone_number field typed as the PhoneNumber of
\* e164.rs: it is parsed, refused when malformed, and stored canonical
visit_struct_e164(var, o) ==
    LET present == FieldSet(var) \cap DOMAIN o
        bad == {f \in present \cap {"phone_number"} :
                  o[f].k = "str" /\ ~parse(o[f].s).ok}
        read(f) == IF f = "phone_number" THEN parse(o[f].s).v.number ELSE o[f].s
    IN  IF \E f \in present : o[f].k # "str"
        THEN Err("invalid_type")
        ELSE IF bad # {}
        THEN Err("custom")
        ELSE IF present # FieldSet(var)
        THEN Err("missing_field")
        ELSE Ok(Value(var.ident, [f \in FieldSet(var) |-> read(f)]))

\* the field visitor of a struct variant, on the entries left after the
\* tag: a known key must hold a string (String::deserialize), an unknown
\* key is skipped (there is no deny_unknown_fields), and at the end every
\* field must have been seen
visit_struct(var, o) ==
    LET present == FieldSet(var) \cap DOMAIN o
    IN  IF \E f \in present : o[f].k # "str"
        THEN Err("invalid_type")
        ELSE IF present # FieldSet(var)
        THEN Err("missing_field")
        ELSE Ok(Value(var.ident, [f \in FieldSet(var) |-> o[f].s]))

\* the variant visitor on the tag's string: the variant so named, if any
visit_variant(ty, name) ==
    LET vs == Variants(ty)
        hits == {i \in 1..Len(vs) : WireName(vs[i]) = name}
    IN  IF hits = {} THEN None ELSE Some(vs[CHOOSE i \in hits : TRUE])

\* deserialize as an untagged enum would: the tag is not read, the first
\* variant whose fields are all there as strings is taken
deserialize_untagged(ty, o) ==
    LET vs == Variants(ty)
        fits == {i \in 1..Len(vs) :
                   /\ FieldSet(vs[i]) \subseteq DOMAIN o
                   /\ \A f \in FieldSet(vs[i]) : o[f].k = "str"}
    IN  IF fits = {}
        THEN Err("no_variant")
        ELSE visit_struct(vs[CHOOSE i \in fits : \A j \in fits : i <= j], o)

\* derive(Deserialize) of an internally tagged enum, on a map: the tag
\* member is looked up and must be a string naming a variant; the other
\* entries are then read as that variant's struct
deserialize(ty, o) ==
    IF TAG \notin DOMAIN o
    THEN Err("missing_tag")
    ELSE IF o[TAG].k # "str"
    THEN Err("invalid_type")
    ELSE LET var == visit_variant(ty, o[TAG].s)
         IN  IF var = None
             THEN Err("unknown_variant")
             ELSE visit_struct(var[1], o)

\* Id::format with the PhoneNumber arm returning the constant of the arm
\* above it
Id_format_pasted(v) ==
    CASE v.variant = Account -> FORMAT_ACCOUNT
      [] v.variant = Email -> FORMAT_EMAIL
      [] v.variant = IssuerSubject -> FORMAT_ISSUER_SUBJECT
      [] v.variant = Opaque -> FORMAT_OPAQUE
      [] v.variant = PhoneNumber -> FORMAT_OPAQUE
      [] v.variant = DID -> FORMAT_DID
      [] v.variant = URI -> FORMAT_URI

\* Id::format
Id_format(v) ==
    CASE v.variant = Account -> FORMAT_ACCOUNT
      [] v.variant = Email -> FORMAT_EMAIL
      [] v.variant = IssuerSubject -> FORMAT_ISSUER_SUBJECT
      [] v.variant = Opaque -> FORMAT_OPAQUE
      [] v.variant = PhoneNumber -> FORMAT_PHONE_NUMBER
      [] v.variant = DID -> FORMAT_DID
      [] v.variant = URI -> FORMAT_URI

\* Atomic::format
Atomic_format(v) ==
    CASE v.variant = Account -> SubjectId_FORMAT_ACCOUNT
      [] v.variant = Email -> SubjectId_FORMAT_EMAIL
      [] v.variant = IssuerSubject -> SubjectId_FORMAT_ISSUER_SUBJECT
      [] v.variant = Opaque -> SubjectId_FORMAT_OPAQUE
      [] v.variant = PhoneNumber -> SubjectId_FORMAT_PHONE_NUMBER
      [] v.variant = Did -> SubjectId_FORMAT_DID
      [] v.variant = Uri -> SubjectId_FORMAT_URI

format(ty, v) == IF ty = "Atomic" THEN Atomic_format(v) ELSE Id_format(v)

(***************************************************************************)
(* Inputs of the atomic union operations                                   *)
(***************************************************************************)
MaxForeign == 1

\* the strings a field may hold
FieldStrings == {<<>>, <<"a">>, <<"7">>}

\* the wire values a member may hold
MemberValues == {JStr(s) : s \in FieldStrings} \cup {JNull}

\* the member names that occur in wire objects
MemberKeys ==
    {"uri", "email", "issuer", "subject", "id", "phone_number", "url", "value"}

\* what the "format" member may hold, None being no such member
TagValues ==
    {Some(JStr(WireName(Atomic_variants[i]))) : i \in 1..Len(Atomic_variants)}
    \cup {Some(JStr(s)) : s \in {SubjectId_FORMAT_ALIASES, <<"s", "s", "n">>,
                                  Account, snake_case(IssuerSubject), <<>>}}
    \cup {Some(JNull), Some(JNum(0)), None}

\* the fields of the format a tag names
DeclaredKeys(tag) ==
    IF tag = None \/ tag[1].k # "str"
    THEN {}
    ELSE UNION {FieldSet(Atomic_variants[i]) :
                  i \in {j \in 1..Len(Atomic_variants) :
                           WireName(Atomic_variants[j]) = tag[1].s}}

\* the objects over key set K with members from MemberValues
ObjectsOver(K) == [K -> MemberValues]

\* wire objects: any tag, any subset of the named format's fields, and at
\* most MaxForeign members foreign to it
WireObjects ==
    UNION {
      UNION {
        {(IF tag = None THEN << >> ELSE (TAG :> tag[1])) @@ body :
            body \in ObjectsOver(P \cup X)} :
          P \in SUBSET DeclaredKeys(tag),
          X \in {Y \in SUBSET (MemberKeys \ DeclaredKeys(tag)) :
                   Cardinality(Y) <= MaxForeign}} :
      tag \in TagValues}

\* the values of type ty a caller can construct
Values(ty) ==
    UNION {{Value(Variants(ty)[i].ident, fs) :
              fs \in [FieldSet(Variants(ty)[i]) -> FieldStrings]} :
           i \in 1..Len(Variants(ty))}

AtomicIdle ==
    /\ aTy = "Atomic"
    /\ aWire = None
    /\ aVal = None
    /\ aDec = None
    /\ aEnc = None
    /\ aFmt = None
    /\ aFmtPrev = None

AtomicInit ==
    /\ aTy \in Types
    /\ \/ aWire \in {Some(o) : o \in WireObjects} /\ aVal = None
       \/ aVal \in {Some(v) : v \in Values(aTy)} /\ aWire = None
    /\ aDec = None
    /\ aEnc = None
    /\ aFmt = None
    /\ aFmtPrev = None

\* the value at hand: the constructed one, else the decoded one
HasValue == aVal # None \/ (aWire # None /\ aDec # None /\ aDec[1].ok)
TheValue == IF aVal # None THEN aVal[1] ELSE aDec[1].v

\* the wire object at hand: the received one, else the encoded one
HasObject == aWire # None \/ (aVal # None /\ aEnc # None)
TheObject == IF aWire # None THEN aWire[1] ELSE aEnc[1]

AtomicDeserialize ==
    /\ HasObject
    /\ aDec = None
    /\ aDec' = Some(deserialize(aTy, TheObject))
    /\ UNCHANGED <<aTy, aWire, aVal, aEnc, aFmt, aFmtPrev, phVars, sVars>>

AtomicSerialize ==
    /\ HasValue
    /\ aEnc = None
    /\ aEnc' = Some(serialize(aTy, TheValue))
    /\ UNCHANGED <<aTy, aWire, aVal, aDec, aFmt, aFmtPrev, phVars, sVars>>

Format ==
    /\ HasValue
    /\ aFmt' = Some(format(aTy, TheValue))
    /\ aFmtPrev' = aFmt
    /\ UNCHANGED <<aTy, aWire, aVal, aDec, aEnc, phVars, sVars>>

AtomicNext ==
    \/ AtomicDeserialize
    \/ AtomicSerialize
    \/ Format

(***************************************************************************)
(* The composite SubjectId (Atomic | Aliases).  Its definition is not part *)
(* of the sources at hand; it is modelled after the specification: no      *)
(* outer discriminator, the Atomic shape tried first, then the Aliases     *)
(* shape, one error when neither fits.                                     *)
(***************************************************************************)
RECURSIVE AllOk(_)
AllOk(rs) == rs = <<>> \/ (Head(rs).ok /\ AllOk(Tail(rs)))

\* an entry of "identifiers": an object that decodes as an Atomic
Entry_deserialize(w) ==
    IF w.k = "obj" THEN deserialize("Atomic", w.o) ELSE Err("invalid_type")

\* the Aliases shape: "format" is "aliases", and "identifiers" holds a
\* non-empty array of Atomic objects
Aliases_deserialize(o) ==
    IF TAG \notin DOMAIN o
    THEN Err("missing_tag")
    ELSE IF o[TAG] # JStr(SubjectId_FORMAT_ALIASES)
    THEN Err("unknown_variant")
    ELSE IF "identifiers" \notin DOMAIN o
    THEN Err("missing_field")
    ELSE IF o["identifiers"].k # "arr"
    THEN Err("invalid_type")
    ELSE LET a == o["identifiers"].a
             rs == [i \in 1..Len(a) |-> Entry_deserialize(a[i])]
         IN  IF ~AllOk(rs)
             THEN Err("invalid_entry")
             ELSE IF Len(a) = 0
             THEN Err("empty_identifiers")
             ELSE Ok([identifiers |-> [i \in 1..Len(a) |-> rs[i].v]])

AtomicCase(v) == [case |-> "Atomic", atomic |-> v]
AliasesCase(al) == [case |-> "Aliases", identifiers |-> al.identifiers]

\* the ordered trial of the two shapes
SubjectId_deserialize(o) ==
    LET a == deserialize("Atomic", o)
    IN  IF a.ok
        THEN Ok(AtomicCase(a.v))
        ELSE LET al == Aliases_deserialize(o)
             IN  IF al.ok
                 THEN Ok(AliasesCase(al.v))
                 ELSE Err("no_shape_matched")

\* SubjectId::format
SubjectId_format(x) ==
    IF x.case = "Atomic" THEN Atomic_format(x.atomic) ELSE SubjectId_FORMAT_ALIASES

(***************************************************************************)
(* Inputs of the SubjectId decoder                                         *)
(***************************************************************************)
MaxEntries == 2

Obj1(tag, k1, v1) == (TAG :> JStr(tag)) @@ (k1 :> v1)

\* {"format":"opaque","id":"abc"}
ExampleOpaque == Obj1(FORMAT_OPAQUE, "id", JStr(<<"a", "b", "c">>))

\* {"format":"email","email":"a@b"} and {"format":"uri","uri":"urn:x"}
ExampleEmail == Obj1(FORMAT_EMAIL, "email", JStr(<<"a", "@", "b">>))
ExampleUri == Obj1(FORMAT_URI, "uri", JStr(<<"u", "r", "n", ":", "x">>))

\* {"format":"aliases","identifiers":[]}
EmptyAliases == Obj1(SubjectId_FORMAT_ALIASES, "identifiers", JArr(<<>>))

\* what an entry of "identifiers" may be
EntryPool ==
    { JObj(ExampleEmail),
      JObj(ExampleUri),
      JObj(TAG :> JStr(FORMAT_OPAQUE)),
      JObj(EmptyAliases),
      JObj(Obj1(SubjectId_FORMAT_ALIASES, "identifiers", JArr(<<JObj(ExampleEmail)>>))
           @@ ("uri" :> JStr(<<"a">>))),
      JNull }

\* objects with an "identifiers" member or none, under several tags, with
\* and without a member of another format
AliasesObjects ==
    { (IF tag = None THEN << >> ELSE (TAG :> tag[1]))
      @@ (IF ids = None THEN << >> ELSE ("identifiers" :> ids[1]))
      @@ (IF extra THEN ("id" :> JStr(<<"a">>)) ELSE << >>) :
        tag \in {None, Some(JStr(SubjectId_FORMAT_ALIASES)), Some(JStr(FORMAT_OPAQUE))},
        ids \in {None, Some(JNull)}
                \cup {Some(JArr(a)) : a \in Strs(EntryPool, MaxEntries)},
        extra \in BOOLEAN }

SubjectObjects == WireObjects \cup AliasesObjects \cup {ExampleOpaque}

SubjectIdle ==
    /\ sWire = << >>
    /\ sDec = None
    /\ sFmt = None

SubjectInit ==
    /\ sWire \in SubjectObjects
    /\ sDec = None
    /\ sFmt = None

SubjectDeserialize ==
    /\ sDec = None
    /\ sDec' = Some(SubjectId_deserialize(sWire))
    /\ UNCHANGED <<sWire, sFmt, phVars, aVars>>

SubjectFormat ==
    /\ sDec # None /\ sDec[1].ok
    /\ sFmt' = Some(SubjectId_format(sDec[1].v))
    /\ UNCHANGED <<sWire, sDec, phVars, aVars>>

SubjectNext ==
    \/ SubjectDeserialize
    \/ SubjectFormat

(***************************************************************************)
(* Specifications                                                          *)
(***************************************************************************)
PhoneSpecInit == PhoneInit /\ AtomicIdle /\ SubjectIdle

PhoneSpec == PhoneSpecInit /\ [][PhoneNext]_vars

AtomicSpecInit == AtomicInit /\ PhoneIdle /\ SubjectIdle

AtomicSpec == AtomicSpecInit /\ [][AtomicNext]_vars

SubjectSpecInit == SubjectInit /\ PhoneIdle /\ AtomicIdle

SubjectSpec == SubjectSpecInit /\ [][SubjectNext]_vars

(***************************************************************************)
(* The format registry as the specification states it: each format name    *)
(* with its declared members and the variants that carry it                *)
(***************************************************************************)
Registry ==
    { [name |-> <<"a", "c", "c", "o", "u", "n", "t">>,
       fields |-> {"uri"}, idents |-> {Account}],
      [name |-> <<"e", "m", "a", "i", "l">>,
       fields |-> {"email"}, idents |-> {Email}],
      [name |-> <<"i", "s", "s", "_", "s", "u", "b">>,
       fields |-> {"issuer", "subject"}, idents |-> {IssuerSubject}],
      [name |-> <<"o", "p", "a", "q", "u", "e">>,
       fields |-> {"id"}, idents |-> {Opaque}],
      [name |-> <<"p", "h", "o", "n", "e", "_", "n", "u", "m", "b", "e", "r">>,
       fields |-> {"phone_number"}, idents |-> {PhoneNumber}],
      [name |-> <<"d", "i", "d">>,
       fields |-> {"url"}, idents |-> {Did, DID}],
      [name |-> <<"u", "r", "i">>,
       fields |-> {"uri"}, idents |-> {Uri, URI}] }

RegistryNames == {r.name : r \in Registry}
RegistryOfName(n) == CHOOSE r \in Registry : r.name = n
RegistryOfVariant(id) == CHOOSE r \in Registry : id \in r.idents

\* the input object names a registry format in its "format" member
NamesKnownFormat(o) ==
    TAG \in DOMAIN o /\ o[TAG].k = "str" /\ o[TAG].s \in RegistryNames

\* the received object was decoded
DecodedInput == aWire # None /\ aDec # None

(***************************************************************************)
(* C1: decoding a wire object as an atomic identifier fails, and yields    *)
(* no value, when the "format" member is absent, names a string outside    *)
(* the seven format names, or a member the named format requires is        *)
(* missing.                                                                *)
(***************************************************************************)
C1_DecodeRejects ==
    DecodedInput =>
        LET o == aWire[1]
        IN  ( \/ TAG \notin DOMAIN o
              \/ (o[TAG].k = "str" /\ o[TAG].s \notin RegistryNames)
              \/ (NamesKnownFormat(o)
                    /\ ~(RegistryOfName(o[TAG].s).fields \subseteq DOMAIN o)) )
            => (~aDec[1].ok /\ "v" \notin DOMAIN aDec[1])

\* {"format":"ssn","value":..} was decoded and refused
C1_Witness ==
    /\ DecodedInput
    /\ TAG \in DOMAIN aWire[1]
    /\ aWire[1][TAG] = JStr(<<"s", "s", "n">>)
    /\ "value" \in DOMAIN aWire[1]
    /\ aDec[1] = Err("unknown_variant")

(***************************************************************************)
(* C2: an object that names a known format and carries all the members it  *)
(* requires plus at least one member foreign to it is rejected with a      *)
(* decode error.                                                           *)
(***************************************************************************)
C2_ForeignMemberRejected ==
    DecodedInput =>
        LET o == aWire[1]
        IN  ( /\ NamesKnownFormat(o)
              /\ RegistryOfName(o[TAG].s).fields \subseteq DOMAIN o
              /\ DOMAIN o \ ({TAG} \cup RegistryOfName(o[TAG].s).fields) # {} )
            => ~aDec[1].ok

(***************************************************************************)
(* C3: encoding an atomic identifier yields one flat object whose members  *)
(* are exactly "format" and the variant's declared fields, "format"        *)
(* holding the registry name and each field the stored string unchanged.   *)
(***************************************************************************)
C3_EncodeFlat ==
    aEnc # None =>
        LET e == aEnc[1]
            v == TheValue
            r == RegistryOfVariant(v.variant)
        IN  /\ DOMAIN e = {TAG} \cup r.fields
            /\ e[TAG] = JStr(r.name)
            /\ \A f \in r.fields : e[f] = JStr(v.fields[f])

\* an issuer/subject pair with two different strings was encoded
C3_Witness ==
    /\ aVal # None
    /\ aEnc # None
    /\ aVal[1].variant = IssuerSubject
    /\ aVal[1].fields["issuer"] # aVal[1].fields["subject"]

(***************************************************************************)
(* C4: decode(encode(v)) succeeds and equals v for every value v, and for  *)
(* every object o that decodes, encode(decode(o)) has the discriminator    *)
(* and the declared field values of o.                                     *)
(***************************************************************************)
C4_RoundTrip ==
    /\ (aVal # None /\ aDec # None) => aDec[1] = Ok(aVal[1])
    /\ (DecodedInput /\ aDec[1].ok /\ aEnc # None) =>
          LET o == aWire[1]
              e == aEnc[1]
          IN  /\ NamesKnownFormat(o)
              /\ e[TAG] = o[TAG]
              /\ \A f \in RegistryOfName(o[TAG].s).fields : e[f] = o[f]

\* an issuer/subject object with two different strings was decoded and
\* encoded again
C4_Witness ==
    /\ DecodedInput
    /\ aDec[1].ok
    /\ aEnc # None
    /\ aDec[1].v.variant = IssuerSubject
    /\ aWire[1]["issuer"] # aWire[1]["subject"]

(***************************************************************************)
(* C5: the SubjectId decoder tries the Atomic shape first and the Aliases  *)
(* shape only when that fails, and returns one error when both fail;       *)
(* {"format":"opaque","id":"abc"} decodes to the Atomic case with format() *)
(* "opaque", an aliases object with two valid entries to the Aliases case  *)
(* with format() "aliases" and 2 entries, and no input whose Atomic        *)
(* interpretation succeeds yields the Aliases case.                        *)
(***************************************************************************)
ExampleAliases ==
    Obj1(<<"a", "l", "i", "a", "s", "e", "s">>, "identifiers",
         JArr(<<JObj(ExampleEmail), JObj(ExampleUri)>>))

C5_WitnessAliases ==
    /\ sWire = ExampleAliases
    /\ sDec # None
    /\ sDec[1].ok
    /\ sDec[1].v.case = "Aliases"
    /\ Len(sDec[1].v.identifiers) = 2
    /\ sFmt = Some(SubjectId_FORMAT_ALIASES)

(***************************************************************************)
(* C6: a decoded Aliases identifier holds one or more entries, each an     *)
(* Atomic identifier of one of the seven formats; an aliases object whose  *)
(* identifiers array is empty, or holds an entry with "format":"aliases",  *)
(* is refused.                                                             *)
(***************************************************************************)
\* w is an object whose "format" member is "aliases"
TaggedAliases(w) ==
    /\ w.k = "obj"
    /\ TAG \in DOMAIN w.o
    /\ w.o[TAG] = JStr(<<"a", "l", "i", "a", "s", "e", "s">>)

DecimalDigit(c) == c \in {"0", "1", "2", "3", "4", "5", "6", "7", "8", "9", "U+0663"}

\* s without its leading '+', if it has one
AfterPlus(s) == IF Len(s) >= 1 /\ s[1] = "+" THEN SubSeq(s, 2, Len(s)) ELSE s

E164Grammar(s) ==
    /\ Len(AfterPlus(s)) >= 1
    /\ Len(AfterPlus(s)) <= 15
    /\ \A i \in 1..Len(AfterPlus(s)) : DecimalDigit(AfterPlus(s)[i])

C8_WitnessAccept ==
    /\ phOut # None
    /\ phOut[1].ok
    /\ Len(phIn) = 15

(***************************************************************************)
(* C9: for every accepted input s, format(parse(s)) is "+" followed by the *)
(* digits of s, parse(format(parse(s))) succeeds and equals parse(s), and  *)
(* the input that differs from s only by the leading '+' parses to an      *)
(* equal value.                                                            *)
(***************************************************************************)
DigitsOf(s) == SelectSeq(s, DecimalDigit)

C9_Canonical ==
    (phOut # None /\ phOut[1].ok) =>
        /\ phText # None => phText[1] = <<"+">> \o DigitsOf(phIn)
        /\ phRe # None => (phRe[1].ok /\ phRe[1].v = phOut[1].v)
        /\ phSib # None => (phSib[1].ok /\ phSib[1].v = phOut[1].v)

\* an input without '+' was parsed, formatted, parsed again, and its
\* sibling with '+' parsed
C9_Witness ==
    /\ phOut # None /\ phOut[1].ok
    /\ phIn[1] # "+"
    /\ phText # None
    /\ phRe # None
    /\ phSib # None

(***************************************************************************)
(* C10: every live PhoneNumber, however produced (from_str, deserialize,   *)
(* clone), stores '+' followed by 1 to 15 digits 0-9 and nothing else;     *)
(* deserialize accepts exactly the strings from_str accepts and fails with *)
(* the invalid phone number error on the rest; serialize writes the stored *)
(* form as a bare string.                                                  *)
(***************************************************************************)
Digit09(c) == c \in {"0", "1", "2", "3", "4", "5", "6", "7", "8", "9"}

Canonical(p) ==
    /\ Len(p.number) >= 2
    /\ Len(p.number) <= 16
    /\ p.number[1] = "+"
    /\ \A i \in 2..Len(p.number) : Digit09(p.number[i])

\* the PhoneNumber values alive in the state
LivePhones ==
    {r[1].v : r \in {x \in {phOut, phSib, phRe, phDe} : x # None /\ x[1].ok}}
    \cup {phClone[i] : i \in 1..Len(phClone)}

C10_SmartConstructor ==
    /\ \A p \in LivePhones : Canonical(p)
    /\ (phOut # None /\ phDe # None /\ phWire.k = "str") =>
          /\ phDe[1].ok = phOut[1].ok
          /\ phDe[1].ok => phDe[1].v = phOut[1].v
          /\ ~phDe[1].ok =>
                phDe[1].err.msg = "invalid E.164 formatted phone number"
    /\ phSer # None => phSer[1] = [k |-> "str", s |-> phOut[1].v.number]

(***************************************************************************)
(* C7: format() returns, for every variant and whatever the fields hold,   *)
(* the registry name of the populated variant; a repeated call returns the *)
(* same name, and no call changes the value.                               *)
(***************************************************************************)
C7_FormatNames ==
    /\ aFmt # None => aFmt[1] = RegistryOfVariant(TheValue.variant).name
    /\ aFmtPrev # None => aFmtPrev = aFmt

C7_FormatTotalPure ==
    /\ []C7_FormatNames
    /\ [][(aFmt' # aFmt \/ aFmtPrev' # aFmtPrev) =>
            (HasValue /\ HasValue' /\ TheValue' = TheValue)]_vars

\* format() was called twice on a phone_number identifier
C7_Witness ==
    /\ aFmtPrev # None
    /\ TheValue.variant = PhoneNumber
    /\ aFmt = Some(<<"p", "h", "o", "n", "e", "_", "n", "u", "m", "b", "e", "r">>)

(***************************************************************************)
(* C11: every declared field of every atomic format is required and must   *)
(* not be null or empty: decoding an object in which a declared field of   *)
(* the named format is null or the empty string fails, and no decoded      *)
(* atomic identifier holds an empty field.                                 *)
(***************************************************************************)
C11_NoNullOrEmptyField ==
    DecodedInput =>
        LET o == aWire[1]
        IN  /\ ( /\ NamesKnownFormat(o)
                  /\ \E f \in RegistryOfName(o[TAG].s).fields \cap DOMAIN o :
                        o[f] = [k |-> "null"] \/ o[f] = [k |-> "str", s |-> <<>>] )
                => ~aDec[1].ok
            /\ aDec[1].ok =>
                  \A f \in DOMAIN aDec[1].v.fields : aDec[1].v.fields[f] # <<>>

(***************************************************************************)
(* C12: the atomic union applies no E.164 validation or normalization:     *)
(* {"format":"phone_number","phone_number":x} decodes for every string x,  *)
(* also one PhoneNumber parsing refuses and one of digits without '+', the *)
(* decoded value stores x unchanged and encodes it unchanged.              *)
(***************************************************************************)
\* the received object is a phone_number object whose field is a string
PhoneObject(o) ==
    /\ TAG \in DOMAIN o
    /\ o[TAG] = [k |-> "str",
                 s |-> <<"p", "h", "o", "n", "e", "_", "n", "u", "m", "b", "e", "r">>]
    /\ "phone_number" \in DOMAIN o
    /\ o["phone_number"].k = "str"

C12_WitnessDigits ==
    /\ DecodedInput
    /\ PhoneObject(aWire[1])
    /\ aWire[1]["phone_number"].s = <<"7">>
    /\ aDec[1].ok

(***************************************************************************)
(* C13: Id and Atomic are wire-equivalent and self-consistent: under the   *)
(* variant correspondence (DID/Did, URI/Uri, the others by name) values    *)
(* with equal fields encode to the same object, an object decodes under    *)
(* one type exactly when it decodes under the other, to corresponding      *)
(* values, the "format" written equals what format() returns, and the      *)
(* seven names are pairwise distinct and none is "aliases".                *)
(***************************************************************************)
OtherType == IF aTy = "Atomic" THEN "Id" ELSE "Atomic"

\* the value of type ty that corresponds to v of the other type
Corresponding(ty, v) ==
    [variant |-> CASE v.variant \in {Did, DID} -> (IF ty = "Id" THEN DID ELSE Did)
                   [] v.variant \in {Uri, URI} -> (IF ty = "Id" THEN URI ELSE Uri)
                   [] OTHER -> v.variant,
     fields |-> v.fields]

C13_WireEquivalent ==
    /\ aEnc # None =>
          /\ aEnc[1] = serialize(OtherType, Corresponding(OtherType, TheValue))
          /\ aFmt # None => aEnc[1][TAG] = [k |-> "str", s |-> aFmt[1]]
    /\ DecodedInput =>
          LET other == deserialize(OtherType, aWire[1])
          IN  /\ other.ok = aDec[1].ok
              /\ aDec[1].ok => other.v = Corresponding(OtherType, aDec[1].v)
              /\ (aDec[1].ok /\ aFmt # None) =>
                    aWire[1][TAG] = [k |-> "str", s |-> aFmt[1]]
    /\ LET names == {WireName(Variants(aTy)[i]) : i \in 1..Len(Variants(aTy))}
       IN  /\ Len(Variants(aTy)) = 7
           /\ Cardinality(names) = 7
           /\ <<"a", "l", "i", "a", "s", "e", "s">> \notin names

\* a "did" object was decoded as an Id, encoded again and asked its format
C13_Witness ==
    /\ aTy = "Id"
    /\ DecodedInput
    /\ aDec[1].ok
    /\ aDec[1].v.variant = DID
    /\ aEnc # None
    /\ aFmt # None

====
